---- MODULE Spec2Model ----
(***************************************************************************)
(* Model of transforms.py: the data-augmentation transforms OneHotLabels,  *)
(* ChannelShuffle, LabelSmoothing, Mixup, DummyTransform, ICATransform and *)
(* EATransform.  One transform object is constructed, then workers call    *)
(* it.  Floating-point values are modelled as exact rationals: a tensor    *)
(* carries integer numerators and one common denominator.                  *)
(***************************************************************************)
EXTENDS Integers, Sequences, FiniteSets, TLC

VARIABLES obj, pc, args, rnd, ret

vars == <<obj, pc, args, rnd, ret>>

(* ------------------------------ bounds --------------------------------- *)

\* class counts range over -1..MaxClasses, labels over -1..MaxClasses
MaxClasses == 3
\* number of first-axis slices (channels) of an input, and rows of a batch
NChan == 2
BatchSize == 2
\* at most MaxExtras pass-through values follow the label
MaxExtras == 2
\* mixing coefficients are lam/LScale, lam in 0..LScale
LScale == 2
\* probabilities are p/PScale and gamma is g/GScale (tenths: the defaults
\* are 0.1)
PScale == 10
GScale == 10

Workers == {"w1", "w2"}
Vals == {0, 1}
ExtraVals == {"a", "b"}

(* ------------------------------ tensors -------------------------------- *)

RECURSIVE Size(_)
Size(shape) == IF shape = <<>> THEN 1 ELSE Head(shape) * Size(Tail(shape))

\* a tensor: shape, row-major integer numerators, common denominator
Tensor(shape, data) == [shape |-> shape, data |-> data, den |-> 1]

AllTensors(shape) == {Tensor(shape, d) : d \in [1..Size(shape) -> Vals]}

RowSize(t) == Size(Tail(t.shape))

RowOf(t, k) == ((k - 1) \div RowSize(t)) + 1

\* equality of tensors as arrays of rationals
TensorEq(a, b) ==
    /\ a.shape = b.shape
    /\ \A k \in 1..Len(a.data) : a.data[k] * b.den = b.data[k] * a.den

Perms(n) == {f \in [1..n -> 1..n] : \A i, j \in 1..n : f[i] = f[j] => i = j}

Identity(n) == [i \in 1..n |-> i]

RECURSIVE SumSeq(_)
SumSeq(s) == IF s = <<>> THEN 0 ELSE Head(s) + SumSeq(Tail(s))

ExtraSeqs(n) == UNION {[1..k -> ExtraVals] : k \in 0..n}

(* -------------------------- library operations ------------------------- *)

\* tf.gather(t, indices, axis=0), indices 1-based here
tf_gather(t, indices) ==
    [shape |-> <<Len(indices)>> \o Tail(t.shape),
     data  |-> [k \in 1..(Len(indices) * RowSize(t)) |->
                  t.data[(indices[((k - 1) \div RowSize(t)) + 1] - 1) * RowSize(t)
                         + ((k - 1) % RowSize(t)) + 1]],
     den   |-> t.den]

\* faulty variant: every slice of the result is the first slice drawn
tf_random_shuffle_repeat(t, perm) == tf_gather(t, [i \in 1..Len(perm) |-> perm[1]])

\* tf.random.shuffle(t): the first-axis slices in the drawn order
tf_random_shuffle(t, perm) == tf_gather(t, perm)

\* tf.one_hot(label, depth): 1 at index label, 0 elsewhere; an index outside
\* [0, depth) gives a vector of zeros
tf_one_hot(label, depth) ==
    Tensor(<<depth>>, [i \in 1..depth |-> IF i - 1 = label THEN 1 ELSE 0])

\* tf.cond(pred, a, b) on two already evaluated values
tf_cond(pred, true_value, false_value) ==
    IF pred THEN true_value ELSE false_value

\* tf.linalg.matmul(m, x) for rank-2 tensors with aligned inner dimensions
tf_matmul(m, x) ==
    LET R == m.shape[1]
        C == m.shape[2]
        W == x.shape[2]
        Dot[r \in 1..R, w \in 1..W, c \in 0..C] ==
            IF c = 0 THEN 0
            ELSE Dot[r, w, c - 1] + m.data[(r - 1) * C + c] * x.data[(c - 1) * W + w]
    IN [shape |-> <<R, W>>,
        data  |-> [k \in 1..(R * W) |-> Dot[((k - 1) \div W) + 1, ((k - 1) % W) + 1, C]],
        den   |-> m.den * x.den]

\* tf.multiply(x, c)
tf_multiply(x, c) == [x EXCEPT !.data = [k \in 1..Len(x.data) |-> x.data[k] * c]]

(* ------------------------------- results ------------------------------- *)

Returned(self, out) == [self |-> self, pc |-> "returned", ret |-> out]
Raised(self)        == [self |-> self, pc |-> "raised", ret |-> <<>>]

Extras(a) == SubSeq(a, 3, Len(a))

NoObj == [kind |-> "none"]
NoRnd == [u |-> 0, perm |-> <<>>, lam |-> <<>>]

(* ----------------------------- OneHotLabels ---------------------------- *)

OneHotLabels_init(max_classes) ==
    [kind |-> "OneHotLabels", max_classes |-> max_classes]

\* faulty variant: one class short
OneHotLabels_call_short(self, a) ==
    IF self.max_classes < 0 THEN Raised(self)
    ELSE Returned(self, <<a[1], tf_one_hot(a[2], self.max_classes - 1)>> \o Extras(a))

OneHotLabels_call(self, a) ==
    IF self.max_classes < 0 THEN Raised(self)
    ELSE Returned(self, <<a[1], tf_one_hot(a[2], self.max_classes)>> \o Extras(a))

(* ---------------------------- ChannelShuffle --------------------------- *)

ChannelShuffle_init(p) ==
    IF 0 <= p /\ p <= PScale
    THEN [kind |-> "ChannelShuffle", p |-> p]
    ELSE [kind |-> "AssertionError"]

\* faulty variant: <= for <
ShufflePred_le(u, p) == u <= p

\* tf.random.uniform(1) < self.p, both in units of 1/PScale
ShufflePred(u, p) == u < p

ChannelShuffle_call(self, a, r) ==
    LET shuffled == tf_random_shuffle(a[1], r.perm)
    IN Returned(self, <<tf_cond(ShufflePred(r.u, self.p), shuffled, a[1]), a[2]>>
                      \o Extras(a))

(* ---------------------------- LabelSmoothing --------------------------- *)

LabelSmoothing_init(targets, gamma) ==
    [kind |-> "LabelSmoothing", targets |-> targets, gamma |-> gamma]

\* faulty variant: label - gamma * label - 1 / (targets + 1)
Smooth_unparenthesised(v, gamma, targets) ==
    v * GScale * (targets + 1) - gamma * v * (targets + 1) - GScale

\* label - gamma * (label - 1 / (targets + 1)), in units of
\* 1 / (GScale * (targets + 1))
Smooth(v, gamma, targets) ==
    LET floor == 1                          \* 1/(targets+1), units 1/(targets+1)
        diff  == v * (targets + 1) - floor  \* label - floor, same units
        prod  == gamma * diff               \* units 1/(GScale*(targets+1))
    IN v * GScale * (targets + 1) - prod

LabelSmoothing_call(self, a) ==
    IF self.targets < 0 THEN Raised(self)
    ELSE LET label == tf_one_hot(a[2], self.targets)
             smoothed == [shape |-> label.shape,
                          data  |-> [i \in 1..Len(label.data) |->
                                       Smooth(label.data[i], self.gamma, self.targets)],
                          den   |-> GScale * (self.targets + 1)]
         IN Returned(self, <<a[1], smoothed>> \o Extras(a))

(* -------------------------------- Mixup -------------------------------- *)

Mixup_init(rate) == [kind |-> "Mixup", rate |-> rate]

\* faulty variant: the two coefficients swapped
MixArg_swapped(arg, lam, permutation) ==
    LET gathered == tf_gather(arg, permutation)
    IN [shape |-> arg.shape,
        data  |-> [k \in 1..Len(arg.data) |->
                     (LScale - lam[RowOf(arg, k)]) * arg.data[k]
                     + lam[RowOf(arg, k)] * gathered.data[k]],
        den   |-> arg.den * LScale]

\* lam_exp * arg + (1 - lam_exp) * tf.gather(arg, permutation, axis=0), with
\* lam_exp of shape (batch, 1, ..., 1) broadcast over each row
MixArg(arg, lam, permutation) ==
    LET gathered == tf_gather(arg, permutation)
    IN [shape |-> arg.shape,
        data  |-> [k \in 1..Len(arg.data) |->
                     lam[RowOf(arg, k)] * arg.data[k]
                     + (LScale - lam[RowOf(arg, k)]) * gathered.data[k]],
        den   |-> arg.den * LScale]

\* faulty variant: the call keeps the coefficient it drew in the object
Mixup_call_caching(self, a, r) ==
    Returned([self EXCEPT !.rate = r.lam[1]],
             [i \in 1..Len(a) |-> MixArg(a[i], r.lam, r.perm)])

Mixup_call(self, a, r) ==
    Returned(self, [i \in 1..Len(a) |-> MixArg(a[i], r.lam, r.perm)])

(* ------------------- DummyTransform, ICA, EA --------------------------- *)

DummyTransform_init == [kind |-> "DummyTransform"]

DummyTransform_call(self, a) == Returned(self, <<tf_multiply(a[1], 2), a[2]>>)

ICATransform_init(input) == [kind |-> "ICATransform", input |-> input]

ICATransform_call(self, a) ==
    IF self.input.shape[2] # a[1].shape[1] THEN Raised(self)
    ELSE Returned(self, <<tf_matmul(self.input, a[1]), a[2]>>)

EATransform_init(ref_matrix) == [kind |-> "EATransform", ref_matrix |-> ref_matrix]

EATransform_call(self, a) ==
    IF self.ref_matrix.shape[2] # a[1].shape[1] THEN Raised(self)
    ELSE Returned(self, <<tf_matmul(self.ref_matrix, a[1]), a[2]>>)

(* ------------------------------ input sets ----------------------------- *)

IdentityMatrix(n) ==
    Tensor(<<n, n>>, [k \in 1..(n * n) |->
                        IF (k - 1) \div n = (k - 1) % n THEN 1 ELSE 0])

Ones(shape) == Tensor(shape, [k \in 1..Size(shape) |-> 1])

Ramp(n) == Tensor(<<n>>, [k \in 1..n |-> k])

\* the inputs of a single call on a fresh transform
Full ==
    [classes  |-> -1..MaxClasses,
     ps       |-> -1..(PScale + 1),
     gammas   |-> -1..(GScale + 1),
     rates    |-> {1, 2},
     matrices |-> AllTensors(<<1, NChan>>)
                    \cup {IdentityMatrix(NChan), Ones(<<1, NChan + 1>>)},
     xs       |-> AllTensors(<<NChan, 1>>),
     labels   |-> -1..MaxClasses,
     opaque   |-> {0, 1},
     extras   |-> ExtraSeqs(MaxExtras),
     us       |-> 0..(PScale - 1),
     batches  |-> {<<x, l>> : x \in AllTensors(<<BatchSize, 1>>),
                              l \in AllTensors(<<BatchSize>>)}
                    \cup {<<x, Ramp(BatchSize), Ramp(BatchSize)>> :
                              x \in AllTensors(<<BatchSize, 1>>)},
     lams     |-> [1..BatchSize -> 0..LScale],
     again    |-> FALSE]

\* the inputs of workers that call the transform again and again
Small ==
    [classes  |-> {MaxClasses},
     ps       |-> {0, PScale},
     gammas   |-> {1},
     rates    |-> {1},
     matrices |-> {IdentityMatrix(NChan)},
     xs       |-> {Tensor(<<NChan, 1>>, [k \in 1..NChan |-> k % 2])},
     labels   |-> {0, MaxClasses},
     opaque   |-> {0},
     extras   |-> {<<>>, <<"a">>},
     us       |-> {0, PScale - 1},
     batches  |-> {<<Tensor(<<BatchSize, 1>>, [k \in 1..BatchSize |-> k % 2]),
                     Ramp(BatchSize)>>},
     lams     |-> [1..BatchSize -> {0, LScale}],
     again    |-> TRUE]

(* ------------------------------- actions ------------------------------- *)

Init ==
    /\ obj = NoObj
    /\ pc = [w \in Workers |-> "idle"]
    /\ args = [w \in Workers |-> <<>>]
    /\ rnd = [w \in Workers |-> NoRnd]
    /\ ret = [w \in Workers |-> <<>>]

\* the transform is constructed once; a failed construction leaves no object
Constructed(o) ==
    /\ obj' = o
    /\ UNCHANGED <<pc, args, rnd, ret>>

NewOneHotLabels(D) ==
    /\ obj = NoObj
    /\ \E n \in D.classes : Constructed(OneHotLabels_init(n))

NewChannelShuffle(D) ==
    /\ obj = NoObj
    /\ \E p \in D.ps : Constructed(ChannelShuffle_init(p))

NewLabelSmoothing(D) ==
    /\ obj = NoObj
    /\ \E n \in D.classes, g \in D.gammas : Constructed(LabelSmoothing_init(n, g))

NewMixup(D) ==
    /\ obj = NoObj
    /\ \E rate \in D.rates : Constructed(Mixup_init(rate))

NewDummyTransform ==
    /\ obj = NoObj
    /\ Constructed(DummyTransform_init)

NewICATransform(D) ==
    /\ obj = NoObj
    /\ \E m \in D.matrices : Constructed(ICATransform_init(m))

NewEATransform(D) ==
    /\ obj = NoObj
    /\ \E m \in D.matrices : Constructed(EATransform_init(m))

\* a worker calls when it has no call yet, or calls again
CanCall(w, D) == D.again \/ pc[w] = "idle"

\* worker w's call with arguments a and random outcomes r ends as res
Finish(w, a, r, res) ==
    /\ obj' = res.self
    /\ pc' = [pc EXCEPT ![w] = res.pc]
    /\ args' = [args EXCEPT ![w] = a]
    /\ rnd' = [rnd EXCEPT ![w] = r]
    /\ ret' = [ret EXCEPT ![w] = res.ret]

CallOneHotLabels(w, D) ==
    /\ CanCall(w, D)
    /\ obj.kind = "OneHotLabels"
    /\ \E x \in D.xs, label \in D.labels, extra \in D.extras :
         LET a == <<x, label>> \o extra
         IN Finish(w, a, NoRnd, OneHotLabels_call(obj, a))

\* tf.cond is handed two tensors, not two callables: a TensorFlow build that
\* checks its branches raises TypeError, one that does not selects a value
CallChannelShuffle(w, D) ==
    /\ CanCall(w, D)
    /\ obj.kind = "ChannelShuffle"
    /\ \E x \in D.xs, label \in D.opaque, extra \in D.extras,
          u \in D.us, perm \in Perms(NChan) :
         LET a == <<x, label>> \o extra
             r == [u |-> u, perm |-> perm, lam |-> <<>>]
         IN \/ Finish(w, a, r, ChannelShuffle_call(obj, a, r))
            \/ Finish(w, a, r, Raised(obj))

CallLabelSmoothing(w, D) ==
    /\ CanCall(w, D)
    /\ obj.kind = "LabelSmoothing"
    /\ \E x \in D.xs, label \in D.labels, extra \in D.extras :
         LET a == <<x, label>> \o extra
         IN Finish(w, a, NoRnd, LabelSmoothing_call(obj, a))

CallMixup(w, D) ==
    /\ CanCall(w, D)
    /\ obj.kind = "Mixup"
    /\ \E a \in D.batches, lam \in D.lams, perm \in Perms(BatchSize) :
         LET r == [u |-> 0, perm |-> perm, lam |-> lam]
         IN Finish(w, a, r, Mixup_call(obj, a, r))

CallDummyTransform(w, D) ==
    /\ CanCall(w, D)
    /\ obj.kind = "DummyTransform"
    /\ \E x \in D.xs, label \in D.opaque, extra \in D.extras :
         LET a == <<x, label>> \o extra
         IN Finish(w, a, NoRnd, DummyTransform_call(obj, a))

CallICATransform(w, D) ==
    /\ CanCall(w, D)
    /\ obj.kind = "ICATransform"
    /\ \E x \in D.xs, label \in D.opaque, extra \in D.extras :
         LET a == <<x, label>> \o extra
         IN Finish(w, a, NoRnd, ICATransform_call(obj, a))

CallEATransform(w, D) ==
    /\ CanCall(w, D)
    /\ obj.kind = "EATransform"
    /\ \E x \in D.xs, label \in D.opaque, extra \in D.extras :
         LET a == <<x, label>> \o extra
         IN Finish(w, a, NoRnd, EATransform_call(obj, a))

New(D) ==
    \/ NewOneHotLabels(D)
    \/ NewChannelShuffle(D)
    \/ NewLabelSmoothing(D)
    \/ NewMixup(D)
    \/ NewDummyTransform
    \/ NewICATransform(D)
    \/ NewEATransform(D)

Call(w, D) ==
    \/ CallOneHotLabels(w, D)
    \/ CallChannelShuffle(w, D)
    \/ CallLabelSmoothing(w, D)
    \/ CallMixup(w, D)
    \/ CallDummyTransform(w, D)
    \/ CallICATransform(w, D)
    \/ CallEATransform(w, D)

\* one caller, all inputs
Next == New(Full) \/ Call("w1", Full)

Spec == Init /\ [][Next]_vars

\* several workers sharing the transform object
NextWorkers == New(Small) \/ \E w \in Workers : Call(w, Small)

SpecWorkers == Init /\ [][NextWorkers]_vars

(* ------------------------------ properties ----------------------------- *)

Slice(t, i) == SubSeq(t.data, (i - 1) * RowSize(t) + 1, i * RowSize(t))

\* the two tensors hold the same multiset of first-axis slices
SameSlices(a, b) ==
    /\ a.shape = b.shape
    /\ \A i \in 1..a.shape[1] :
         Cardinality({j \in 1..a.shape[1] : Slice(a, j) = Slice(a, i)})
           = Cardinality({j \in 1..b.shape[1] : Slice(b, j) = Slice(a, i)})

\* the values after the label come back unchanged and in order
ExtrasKept(w) ==
    /\ Len(ret[w]) = Len(args[w])
    /\ \A i \in 3..Len(args[w]) : ret[w][i] = args[w][i]

Min(a, b) == IF a <= b THEN a ELSE b
Max(a, b) == IF a <= b THEN b ELSE a

ReturnedFrom(w, kind) == obj.kind = kind /\ pc[w] = "returned"

LabelKinds == {"OneHotLabels", "LabelSmoothing"}

ClassCount == IF obj.kind = "OneHotLabels" THEN obj.max_classes ELSE obj.targets

\* C1: every transform returns a tuple as long as its argument tuple, with
\* the pass-through values after the label unchanged and in order (Mixup
\* takes no pass-through values: every argument of its tuple is mixed).
ArityPreserved ==
    \A w \in Workers :
        pc[w] = "returned" =>
            IF obj.kind = "Mixup" THEN Len(ret[w]) = Len(args[w]) ELSE ExtrasKept(w)

MixupBlends ==
    \A w \in Workers :
        ReturnedFrom(w, "Mixup") =>
            LET lam == rnd[w].lam
                perm == rnd[w].perm
            IN /\ Len(ret[w]) = Len(args[w])
               /\ \A j \in 1..Len(args[w]) :
                    LET t == args[w][j]
                        o == ret[w][j]
                    IN /\ o.shape = t.shape
                       /\ \A i \in 1..t.shape[1] : \A c \in 1..RowSize(t) :
                            LET own   == Slice(t, i)[c]
                                other == Slice(t, perm[i])[c]
                            IN /\ Slice(o, i)[c] * LScale
                                    = (lam[i] * own + (LScale - lam[i]) * other) * o.den
                               /\ Slice(o, i)[c] >= Min(own, other) * o.den
                               /\ Slice(o, i)[c] <= Max(own, other) * o.den
                       /\ (\A i \in 1..Len(lam) : lam[i] = LScale) => TensorEq(o, t)
                       /\ (\A i \in 1..Len(lam) : lam[i] = 0)
                              => TensorEq(o, tf_gather(t, perm))

MixupBlendsWitness ==
    \E w \in Workers :
        /\ ReturnedFrom(w, "Mixup")
        /\ Len(args[w]) = 3
        /\ rnd[w].perm # Identity(BatchSize)
        /\ rnd[w].lam[1] = 1
        /\ rnd[w].lam[2] = LScale
        /\ ~TensorEq(ret[w][1], args[w][1])
        /\ ~TensorEq(ret[w][3], args[w][3])

\* C4: a ChannelShuffle with p outside [0,1], a OneHotLabels with
\* max_classes <= 0 and a LabelSmoothing with targets <= 0 are never
\* constructed.
InvalidParametersRejected ==
    /\ obj.kind = "ChannelShuffle" => (0 <= obj.p /\ obj.p <= PScale)
    /\ obj.kind = "OneHotLabels" => obj.max_classes > 0
    /\ obj.kind = "LabelSmoothing" => obj.targets > 0

\* C5: for targets >= 1, a label in range and gamma in [0,1], the entries of
\* the smoothed label sum to 1.
SmoothedSumsToOne ==
    \A w \in Workers :
        (/\ ReturnedFrom(w, "LabelSmoothing")
         /\ obj.targets >= 1
         /\ 0 <= args[w][2] /\ args[w][2] < obj.targets
         /\ 0 <= obj.gamma /\ obj.gamma <= GScale)
        => SumSeq(ret[w][2].data) = ret[w][2].den

\* C6: for targets >= 1 and a label in range, the smoothed label has length
\* targets, (1 - gamma) + gamma/(targets + 1) at the label's index and
\* gamma/(targets + 1) elsewhere (0.925 and 0.025 for targets = 3,
\* gamma = 0.1); the input and the extras are returned unchanged.
SmoothingClosedForm ==
    \A w \in Workers :
        (/\ ReturnedFrom(w, "LabelSmoothing")
         /\ obj.targets >= 1
         /\ 0 <= args[w][2] /\ args[w][2] < obj.targets)
        => LET T == obj.targets
               g == obj.gamma
               v == ret[w][2]
           IN /\ v.shape = <<T>>
              /\ Len(v.data) = T
              /\ \A i \in 1..T :
                   \* v.data[i] / v.den = (1 - g/GScale) [at the label] + (g/GScale)/(T+1)
                   v.data[i] * GScale * (T + 1)
                     = v.den * ((IF i = args[w][2] + 1 THEN (GScale - g) * (T + 1) ELSE 0) + g)
              /\ (T = 3 /\ g * 10 = GScale) =>
                   \A i \in 1..T :
                     v.data[i] * 1000
                       = v.den * (IF i = args[w][2] + 1 THEN 925 ELSE 25)
              /\ ret[w][1] = args[w][1]
              /\ ExtrasKept(w)

SmoothingClosedFormWitness ==
    \E w \in Workers :
        /\ ReturnedFrom(w, "LabelSmoothing")
        /\ obj.targets = 3
        /\ obj.gamma = 1
        /\ args[w][2] = 1
        /\ Len(args[w]) = 4
        /\ ret[w][2].data = <<1, 37, 1>>
        /\ ret[w][2].den = 40

\* C7: for max_classes >= 1 and a label in range, the encoded label has
\* length max_classes, 1 at the label's index and 0 elsewhere, and sums to
\* 1; the input and the extras are returned unchanged.
OneHotEncodes ==
    \A w \in Workers :
        (/\ ReturnedFrom(w, "OneHotLabels")
         /\ obj.max_classes >= 1
         /\ 0 <= args[w][2] /\ args[w][2] < obj.max_classes)
        => LET v == ret[w][2]
           IN /\ v.shape = <<obj.max_classes>>
              /\ Len(v.data) = obj.max_classes
              /\ v.den = 1
              /\ \A i \in 1..obj.max_classes :
                   v.data[i] = (IF i - 1 = args[w][2] THEN 1 ELSE 0)
              /\ SumSeq(v.data) = 1
              /\ ret[w][1] = args[w][1]
              /\ ExtrasKept(w)

OneHotEncodesWitness ==
    \E w \in Workers :
        /\ ReturnedFrom(w, "OneHotLabels")
        /\ obj.max_classes = MaxClasses
        /\ args[w][2] = MaxClasses - 1
        /\ Len(args[w]) = 4
        /\ args[w][3] # args[w][4]
        /\ ret[w][2].data[MaxClasses] = 1

\* C8: a call of OneHotLabels or LabelSmoothing (built with a positive class
\* count) with a label below 0 or not below the class count ends in an
\* error, never in a returned label vector.
OutOfRangeLabelRaises ==
    \A w \in Workers :
        (/\ obj.kind \in LabelKinds
         /\ ClassCount >= 1
         /\ pc[w] # "idle"
         /\ (args[w][2] < 0 \/ args[w][2] >= ClassCount))
        => pc[w] = "raised"

CallsKeepParameters ==
    /\ [][obj # NoObj => obj' = obj]_vars
    /\ [](\A v, w \in Workers :
            (/\ pc[v] = "returned" /\ pc[w] = "returned"
             /\ Len(args[v]) = Len(args[w])
             /\ args[v] = args[w] /\ rnd[v] = rnd[w])
            => ret[v] = ret[w])

CallsKeepParametersWitness ==
    /\ obj.kind = "Mixup"
    /\ pc["w1"] = "returned"
    /\ pc["w2"] = "returned"
    /\ rnd["w1"] # rnd["w2"]
    /\ ret["w1"] # ret["w2"]

====
